---- MODULE Spec2Model ----
(***************************************************************************)
(* The interactive optimisation loop of repulsive-curves: LWSApp's per-    *)
(* frame callback customWindow (src/src/lws_app.cpp), the solver set-up    *)
(* initSolver, and SubdivideCurve.  The flow solver (TPEFlowSolverSC), the *)
(* curve network (PolyCurveNetwork) and the energy live outside the files  *)
(* at hand; they are modelled after the design document (sections 4.1 and  *)
(* 4.5) on a family of axis-aligned polylines with integer coordinates.    *)
(*                                                                         *)
(* Spec   : initSolver, then callbacks that start, stop and step the flow. *)
(* SpecUI : initSolver, then callbacks that set the solver options and     *)
(*          step with the button.                                          *)
(* SpecLS : the line search of the steps, one trial per transition.        *)
(* SpecSub : SubdivideCurve, one statement per transition.                 *)
(* SpecMain : main from processFile to initSolver, for every input file.   *)
(* SpecFrames : callbacks that write frames and step with the button.      *)
(* SpecNames : the same callbacks after 9998 frames have been written.     *)
(* SpecBCT : the dual traversal that builds the block cluster tree.        *)
(***************************************************************************)
EXTENDS Integers, Sequences, FiniteSets, TLC

(***************************************************************************)
(* Bounds of the model.                                                    *)
(***************************************************************************)
\* Largest number of optimisation steps a run of the model takes.
MaxSteps == 6
\* Largest coordinate of a vertex (the arm length of the polyline).
MaxArm == 20
\* Largest subdivision limit a scene file or the default sets.
MaxSubdivideLimit == 2
\* Largest iteration limit a scene file or the default sets.
MaxStepLimit == 1

(***************************************************************************)
(* Small helpers.                                                          *)
(***************************************************************************)
Abs(x) == IF x < 0 THEN -x ELSE x

RECURSIVE Pow2(_)
Pow2(n) == IF n <= 0 THEN 1 ELSE 2 * Pow2(n - 1)

RECURSIVE SumSeq(_)
SumSeq(s) == IF s = <<>> THEN 0 ELSE Head(s) + SumSeq(Tail(s))

(***************************************************************************)
(* PolyCurveNetwork: vertex positions and edges as index pairs (design     *)
(* document, section 3).  All edges of the curves considered are parallel  *)
(* to an axis, so that lengths are integers.                               *)
(***************************************************************************)
NumVertices(c) == Len(c.pos)

NumEdges(c) == Len(c.edges)

\* CurveEdge: length = |p1 - p0| for an axis-parallel edge.
EdgeLength(c, k) ==
    LET p0 == c.pos[c.edges[k][1]]
        p1 == c.pos[c.edges[k][2]]
    IN  Abs(p1[1] - p0[1]) + Abs(p1[2] - p0[2])

TotalLength(c) == SumSeq([k \in 1..NumEdges(c) |-> EdgeLength(c, k)])

\* Twice the midpoint of edge k (m = (p0 + p1) / 2).
Midpoint2(c, k) ==
    LET p0 == c.pos[c.edges[k][1]]
        p1 == c.pos[c.edges[k][2]]
    IN  <<p0[1] + p1[1], p0[2] + p1[2]>>

\* The axis of the tangent of edge k: 1 when the edge runs along x, 2 along y.
TangentAxis(c, k) ==
    IF c.pos[c.edges[k][1]][2] = c.pos[c.edges[k][2]][2] THEN 1 ELSE 2

\* An open polyline of two perpendicular edges of length a, the corner at the origin.
LCurve(a) ==
    [pos |-> << <<0, a>>, <<0, 0>>, <<a, 0>> >>, edges |-> << <<1, 2>>, <<2, 3>> >>]

\* PolyCurveNetwork::Subdivide: every edge is split at its midpoint.  The old
\* vertices keep their indices; the midpoint of edge k becomes vertex n + k.
Subdivide(c) ==
    LET n == NumVertices(c)
        m == NumEdges(c)
        mid(k) == LET mm == Midpoint2(c, k) IN <<mm[1] \div 2, mm[2] \div 2>>
    IN  [pos   |-> [i \in 1..(n + m) |-> IF i <= n THEN c.pos[i] ELSE mid(i - n)],
         edges |-> [j \in 1..(2 * m) |->
                      LET k == (j + 1) \div 2
                      IN  IF j % 2 = 1 THEN <<c.edges[k][1], n + k>>
                                       ELSE <<n + k, c.edges[k][2]>>]]

(***************************************************************************)
(* Tangent-point energy (design document, section 4.1) with the exponents  *)
(* alpha = 3, beta = 6, in fixed point: one unit is 1 / EnergyUnit.        *)
(***************************************************************************)
EnergyUnit == 10000

\* Length, doubled midpoint and tangent axis of every edge.
EdgeData(c) ==
    [k \in 1..NumEdges(c) |->
        [len |-> EdgeLength(c, k), mid |-> Midpoint2(c, k), axis |-> TangentAxis(c, k)]]

\* k(m_i, m_j, T_i) * l_i * l_j = |P_T (m_j - m_i)|^3 / |m_j - m_i|^6 * l_i * l_j.
\* With d2 = 2 (m_j - m_i): 8 * perp^3 / (d2 . d2)^3 * l_i * l_j.
PairEnergy(ei, ej) ==
    LET dx   == ej.mid[1] - ei.mid[1]
        dy   == ej.mid[2] - ei.mid[2]
        perp == IF ei.axis = 1 THEN Abs(dy) ELSE Abs(dx)
        dd   == dx * dx + dy * dy
    IN  IF dd = 0 THEN 0
        ELSE (8 * ei.len * ej.len * ((EnergyUnit * perp * perp * perp) \div dd))
                 \div (dd * dd)

\* The sum of the pair energies of edge i with the edges j..m.
RECURSIVE RowEnergy(_, _, _)
RowEnergy(ed, i, j) ==
    IF j > Len(ed) THEN 0
    ELSE (IF i = j THEN 0 ELSE PairEnergy(ed[i], ed[j])) + RowEnergy(ed, i, j + 1)

RECURSIVE RowsEnergy(_, _)
RowsEnergy(ed, i) ==
    IF i > Len(ed) THEN 0 ELSE RowEnergy(ed, i, 1) + RowsEnergy(ed, i + 1)

\* E = sum over i # j of the pair energies.
TangentPointEnergy(c) == RowsEnergy(EdgeData(c), 1)

\* TotalLengthPotential: weight times the total length of the curve.
PotentialEnergy(c, potentials) ==
    IF potentials = <<>> THEN 0
    ELSE SumSeq([k \in 1..Len(potentials) |-> potentials[k].weight]) * TotalLength(c)

\* The energy the line search evaluates: tangent-point energy plus potentials.
Energy(c, potentials) == TangentPointEnergy(c) + PotentialEnergy(c, potentials)

(***************************************************************************)
(* The state of the program.                                               *)
(***************************************************************************)
VARIABLES
    pc,                  \* "main": before initSolver; "idle": between callbacks
    runTPE,              \* LWSOptions::runTPE
    useSobolev,          \* LWSOptions::useSobolev
    useMultigrid,        \* LWSOptions::useMultigrid
    useBarnesHut,        \* LWSOptions::useBarnesHut
    useBackproj,         \* LWSApp::useBackproj
    outputFrames,        \* LWSOptions::outputFrames
    writeOBJs,           \* LWSApp::writeOBJs
    screenshotNum,       \* LWSApp::screenshotNum
    objNum,              \* LWSApp::objNum
    currentStep,         \* LWSApp::currentStep
    numStuckIterations,  \* LWSApp::numStuckIterations
    subdivideCount,      \* LWSApp::subdivideCount
    subdivideLimit,      \* LWSApp::subdivideLimit
    stepLimit,           \* LWSApp::stepLimit
    initialAverageLength,\* LWSApp::initialAverageLength, as [total, edges]
    curves,              \* LWSApp::curves
    sceneData,           \* LWSApp::sceneData
    tpeSolver,           \* LWSApp::tpeSolver and the solver's fields
    ls,                  \* the line search of the last step: [dir, halvings]
    log,                 \* what the last callback did (observation only)
    network,             \* constraints and pins of the network curves points to
    heap,                \* the networks allocated, and who points to which
    load,                \* the input file and what processFile made of it
    disk,                \* the frame files written
    bct                  \* the block cluster tree under construction

vars == <<pc, runTPE, useSobolev, useMultigrid, useBarnesHut, useBackproj,
          outputFrames, writeOBJs, screenshotNum, objNum, currentStep,
          numStuckIterations, subdivideCount, subdivideLimit, stepLimit,
          initialAverageLength, curves, sceneData, tpeSolver, ls, log,
          network, heap, load, disk, bct>>

options == <<useSobolev, useMultigrid, useBarnesHut, useBackproj, outputFrames, writeOBJs>>
frameCounters == <<screenshotNum, objNum>>
limits == <<subdivideLimit, stepLimit, initialAverageLength, sceneData>>
startup == <<load, bct>>

(***************************************************************************)
(* The flow solver (design document, section 4.5).  The descent direction  *)
(* of the curves considered is a dilation about the corner: dir is the     *)
(* change of the edge length at step size t = 1, in lattice units.         *)
(***************************************************************************)
\* Largest magnitude of a descent direction.
MaxDir == 4

\* The number of calls main makes in the model, initSolver called again included.
MaxCalls == 4

\* The number of presses of "Output frame" in a behaviour.
MaxManualFrames == 3

\* The number of frames written before the behaviours of SpecNames begin.
FramesBefore == 9998

\* The largest number of edges of a curve whose block cluster tree is built.
MaxBCTEdges == 4

\* sep: "the value we use in the project is 1.0".
SeparationRatio == 1

\* The arm length of the curve read from the file.
InitialArm == 4

\* The lattice the vertex positions live on after count subdivisions: midpoints
\* of edges are lattice points.
Grain(count) == IF Pow2(count) >= InitialArm THEN 1 ELSE InitialArm \div Pow2(count)

\* The dilation of c that gives edge 1 the length e.
ScaleTo(c, e) ==
    LET e0 == EdgeLength(c, 1)
    IN  [c EXCEPT !.pos = [i \in 1..NumVertices(c) |->
                             <<(c.pos[i][1] * e) \div e0, (c.pos[i][2] * e) \div e0>>]]

\* x - t * g at t = 1 / 2^h: the step is halved h times (rounded towards x).
TrialEdgeLength(c, count, dir, h) ==
    LET mag == Abs(dir) \div Pow2(h)
    IN  EdgeLength(c, 1) + (IF dir < 0 THEN -mag ELSE mag) * Grain(count)

\* The directions a gradient evaluation may produce on curve c: the curve
\* neither collapses nor leaves the box of the model at t = 1.
IsDir(c, count, d) ==
    /\ d \in (-1)..MaxDir
    /\ TrialEdgeLength(c, count, d, 0) >= 1
    /\ (NumEdges(c) * TrialEdgeLength(c, count, d, 0)) \div 2 <= MaxArm

\* A line search that accepts every trial point.
ArmijoAlways(trialEnergy, energy) == TRUE

\* Armijo condition E(x - t g) <= E(x) - c1 t <g, g^>; the last term is positive
\* and below one unit of the energy.
Armijo(trialEnergy, energy) == trialEnergy + 1 <= energy

\* The largest number of halvings of a line search.
MaxHalvings == 16

\* A line search that gives up one halving later.
LineSearchExhaustedOffByOne(h) == h >= MaxHalvings + 1

\* "fail after <= 16 halvings"
LineSearchExhausted(h) == h >= MaxHalvings

\* One trial of the line search at h halvings, energy being E(x): accept, give
\* up, or halve.  (A trial point equal to x has the energy of x.)
LineSearchStep(c, energy, count, dir, potentials, h) ==
    LET e           == TrialEdgeLength(c, count, dir, h)
        trial       == ScaleTo(c, e)
        trialEnergy == IF e = EdgeLength(c, 1) THEN energy
                       ELSE Energy(trial, potentials)
    IN  IF Armijo(trialEnergy, energy)
        THEN [done |-> TRUE, good |-> TRUE, curve |-> trial, halvings |-> h]
        ELSE IF LineSearchExhausted(h)
             THEN [done |-> TRUE, good |-> FALSE, curve |-> c, halvings |-> h]
             ELSE [done |-> FALSE, good |-> FALSE, curve |-> c, halvings |-> h + 1]

\* The backtracking line search from h halvings on, run to its end.
RECURSIVE LineSearchFrom(_, _, _, _, _, _)
LineSearchFrom(c, energy, count, dir, potentials, h) ==
    LET st == LineSearchStep(c, energy, count, dir, potentials, h)
    IN  IF st.done THEN st
        ELSE LineSearchFrom(c, energy, count, dir, potentials, h + 1)

\* The line search of one step: E(x) is evaluated once, then t = 1, 1/2, ...
LineSearch(c, count, dir, potentials) ==
    CHOOSE r \in {LineSearchFrom(c, energy, count, dir, potentials, 0) :
                     energy \in {Energy(c, potentials)}} : TRUE

\* TPEFlowSolverSC::TargetLengthReached: no target, or the total length reached it.
TargetLengthReached(solver, c) ==
    solver.targetLength = 0 \/ TotalLength(c) >= solver.targetLength

NoSolver ==
    [created |-> FALSE, soboNormZero |-> FALSE, potentials |-> <<>>,
     targetLength |-> 0, obstacles |-> <<>>]

(***************************************************************************)
(* LWSApp: the pieces of initSolver and customWindow.                      *)
(***************************************************************************)
B2I(b) == IF b THEN 1 ELSE 0

\* initSolver: a limit of the scene file replaces the current one when positive.
ConfiguredLimit(current, fromScene) == IF fromScene > 0 THEN fromScene ELSE current

\* curves->TotalLength() / curves->NumEdges(), kept as a fraction.
AverageLength(c) == [total |-> TotalLength(c), edges |-> NumEdges(c)]

\* SetEdgeLengthScaleTarget: the target is the scale times the current length.
TargetLengthOf(scene, c) ==
    IF scene.useLengthScale /\ scene.edgeLengthScale # 1
    THEN scene.edgeLengthScale * TotalLength(c)
    ELSE 0

\* initSolver's loop over sceneData.extraPotentials: a Length potential is added
\* to the solver, an Area potential is reported as not implemented and skipped.
RECURSIVE AddedPotentials(_)
AddedPotentials(extra) ==
    IF extra = <<>> THEN <<>>
    ELSE IF Head(extra).type = "Length"
         THEN <<[type |-> "Length", weight |-> Head(extra).weight]>>
                  \o AddedPotentials(Tail(extra))
         ELSE AddedPotentials(Tail(extra))

\* initSolver: the mesh obstacles of the scene, then its planes.
AddedObstacles(scene) == scene.obstacles \o scene.planes

\* A callback that runs the step block in every frame.
ShouldStepAlways(run, button) == TRUE

\* customWindow: the step block runs when the run flag is set or the button pressed.
ShouldStep(run, button) == run \/ button

\* A callback that hands useBarnesHut to the multigrid routine as well.
SolverCallBarnesHut(sobolev, multigrid, barnesHut, backproj) ==
    IF sobolev
    THEN IF multigrid
         THEN [routine |-> "StepSobolevLSIterative",
               args |-> <<B2I(barnesHut), B2I(backproj)>>]
         ELSE [routine |-> "StepSobolevLS", args |-> <<B2I(barnesHut), B2I(backproj)>>]
    ELSE [routine |-> "StepLS", args |-> <<B2I(barnesHut)>>]

\* customWindow: the solver routine a step calls, with its arguments.
SolverCall(sobolev, multigrid, barnesHut, backproj) ==
    IF sobolev
    THEN IF multigrid
         THEN [routine |-> "StepSobolevLSIterative", args |-> <<0, B2I(backproj)>>]
         ELSE [routine |-> "StepSobolevLS", args |-> <<B2I(barnesHut), B2I(backproj)>>]
    ELSE [routine |-> "StepLS", args |-> <<B2I(barnesHut)>>]

\* A callback that does not look at soboNormZero.
AfterNearMinimumIgnored(run, soboNormZero) == [run |-> run, msgs |-> {}]

\* customWindow: "Stopped because flow is (probably) near a local minimum."
AfterNearMinimum(run, soboNormZero) ==
    IF soboNormZero THEN [run |-> FALSE, msgs |-> {"near minimum"}]
    ELSE [run |-> run, msgs |-> {}]

\* The number of failed steps after which a run that reached its length stops.
StuckThreshold == 5

\* A callback that stops a failed step on either condition alone.
AfterProgressCheckEither(run, stuck, good, targetReached, limit, step) ==
    IF ~good
    THEN IF stuck + 1 >= StuckThreshold \/ targetReached
         THEN [run |-> FALSE, stuck |-> stuck + 1, msgs |-> {"no progress"}]
         ELSE [run |-> run, stuck |-> stuck + 1, msgs |-> {}]
    ELSE IF limit > 0 /\ step >= limit
         THEN [run |-> FALSE, stuck |-> stuck, msgs |-> {"step limit"}]
         ELSE [run |-> run, stuck |-> 0, msgs |-> {}]

\* customWindow: the stuck counter and the step limit after a step.
AfterProgressCheck(run, stuck, good, targetReached, limit, step) ==
    IF ~good
    THEN IF stuck + 1 >= StuckThreshold /\ targetReached
         THEN [run |-> FALSE, stuck |-> stuck + 1, msgs |-> {"no progress"}]
         ELSE [run |-> run, stuck |-> stuck + 1, msgs |-> {}]
    ELSE IF limit > 0 /\ step >= limit
         THEN [run |-> FALSE, stuck |-> stuck, msgs |-> {"step limit"}]
         ELSE [run |-> run, stuck |-> 0, msgs |-> {}]

\* averageLength >= 2 * initialAverageLength
AverageLengthReached(c, initial) ==
    TotalLength(c) * initial.edges >= 2 * initial.total * NumEdges(c)

\* averageLength > 2 * initialAverageLength
AverageLengthExceeded(c, initial) ==
    TotalLength(c) * initial.edges > 2 * initial.total * NumEdges(c)

\* A subdivision test without the limit.
ShouldSubdivideUnlimited(c, initial, count, limit) ==
    TotalLength(c) * initial.edges > 2 * initial.total * NumEdges(c)

\* A subdivision test that allows one subdivision more than the limit.
ShouldSubdivideUpToLimit(c, initial, count, limit) ==
    TotalLength(c) * initial.edges > 2 * initial.total * NumEdges(c) /\ count <= limit

\* customWindow: the condition under which the curve is subdivided after a step.
ShouldSubdivide(c, initial, count, limit) ==
    AverageLengthExceeded(c, initial) /\ count < limit

\* outputFrame / outputOBJFrame: the counter after writing one frame.
AfterFrame(num) == num + 1

\* A step that writes a frame before itself whenever frame output is on.
BeforeStepFrameAlways(enabled, num) == IF enabled THEN num + 1 ELSE num

\* The frame written before the first step: only when no frame was written yet.
BeforeStepFrame(enabled, num) == IF enabled /\ num = 0 THEN AfterFrame(num) ELSE num

\* The frame written after every step while frame output is on.
AfterStepFrame(enabled, num) == IF enabled THEN AfterFrame(num) ELSE num

(***************************************************************************)
(* The networks in memory.  Networks are numbered in the order of their    *)
(* allocation; 0 is the null pointer.                                      *)
(***************************************************************************)
\* After processFile and DisplayCurves: one network, no solver yet.
InitialHeap ==
    [curves |-> 1, solver |-> 0, subdivided |-> 0, shown |-> 1, live |-> {1},
     allocs |-> 1, stage |-> 0]

\* The statements of SubdivideCurve, in the order of the source.
SubdivideCurveBody == <<"Subdivide", "DisplayCurves", "ReplaceCurve", "delete", "assign">>

\* SubdivideCurve with the old network deleted before the solver is switched.
SubdivideCurveDeleteFirst(k) ==
    <<"Subdivide", "DisplayCurves", "delete", "ReplaceCurve", "assign">>[k]

\* The k-th statement of SubdivideCurve.
SubdivideCurveStatement(k) == SubdivideCurveBody[k]

\* The effect of one statement of SubdivideCurve on the heap h.
Execute(h, statement) ==
    CASE statement = "Subdivide" ->
           [h EXCEPT !.allocs = h.allocs + 1, !.subdivided = h.allocs + 1,
                     !.live = h.live \cup {h.allocs + 1}]
      [] statement = "DisplayCurves" -> [h EXCEPT !.shown = h.subdivided]
      [] statement = "ReplaceCurve" -> [h EXCEPT !.solver = h.subdivided]
      [] statement = "delete" -> [h EXCEPT !.live = h.live \ {h.curves}]
      [] statement = "assign" -> [h EXCEPT !.curves = h.subdivided]

\* The next statement of SubdivideCurve is executed.
SubdivideCurveStep(h) ==
    [Execute(h, SubdivideCurveStatement(h.stage + 1)) EXCEPT !.stage = h.stage + 1]

\* SubdivideCurve from the statement h.stage + 1 to its return.
RECURSIVE SubdivideCurveFrom(_)
SubdivideCurveFrom(h) ==
    IF h.stage >= Len(SubdivideCurveBody) THEN [h EXCEPT !.stage = 0, !.subdivided = 0]
    ELSE SubdivideCurveFrom(SubdivideCurveStep(h))

\* The constraints and pins of a network read from a curve file.
NoNetworkData ==
    [appliedConstraints |-> <<>>, pinnedVertices |-> {}, pinnedTangents |-> {},
     surfacePins |-> {}, pinnedAllToSurface |-> FALSE]

\* PolyCurveNetwork::Subdivide: the constraints and pins go over to the new
\* network; the old vertices keep their indices, so the pins keep theirs.
SubdividedNetworkData(n) == n

\* An initSolver that adds the default constraints to every network.
DefaultConstraintsAppended(applied) == applied \o <<"Barycenter", "EdgeLengths">>

\* initSolver: a network without constraints gets the default ones.
DefaultConstraints(applied) ==
    IF Len(applied) = 0 THEN <<"Barycenter", "EdgeLengths">> ELSE applied

(***************************************************************************)
(* The frame files.  A file is [dir, name, num]: name is what the buffer   *)
(* holds, num the frame number whose picture the file contains.            *)
(***************************************************************************)
\* The decimal digits of n >= 0.
RECURSIVE Decimal(_)
Decimal(n) == IF n < 10 THEN <<n>> ELSE Decimal(n \div 10) \o <<n % 10>>

\* "%04d": at least four digits, padded with zeros on the left.
RECURSIVE ZeroPadded(_, _)
ZeroPadded(digits, width) ==
    IF Len(digits) >= width THEN digits ELSE ZeroPadded(<<0>> \o digits, width)

\* snprintf(buffer, size, ...): the first size - 1 characters, then the NUL.
Snprintf(size, text) ==
    IF Len(text) <= size - 1 THEN text ELSE SubSeq(text, 1, size - 1)

\* char buffer[5]; snprintf(buffer, sizeof(buffer), "%04d", num)
FrameName(num) == Snprintf(5, ZeroPadded(Decimal(num), 4))

\* The file of frame num is written into dir: a file of that name is replaced.
WriteFrame(d, dir, num) ==
    {f \in d : ~(f.dir = dir /\ f.name = FrameName(num))}
        \cup {[dir |-> dir, name |-> FrameName(num), num |-> num]}

\* The frames from..to-1 are written into dir, in this order.
RECURSIVE WriteFrames(_, _, _, _)
WriteFrames(d, dir, from, to) ==
    IF from >= to THEN d ELSE WriteFrames(WriteFrame(d, dir, from), dir, from + 1, to)

\* outputFrame for the numbers from..to-1, outputOBJFrame for objFrom..objTo-1.
AfterOutput(d, from, to, objFrom, objTo) ==
    WriteFrames(WriteFrames(WriteFrames(d, "frames", from, to),
                            "objs", objFrom, objTo),
                "objTangents", objFrom, objTo)

(***************************************************************************)
(* The input.  load holds the file named on the command line (its          *)
(* extension, the positions and edges of the curve file, and for a scene   *)
(* file the data ParseSceneFile returns), whether curves points to a       *)
(* network (handle), the errors reported, and the calls main has made.     *)
(***************************************************************************)
\* A file without scene data.
CurveFile(ext, positions, edges, data) ==
    [ext |-> ext, positions |-> positions, edges |-> edges, data |-> data,
     constraints |-> <<>>, pinnedVertices |-> {}, pinnedTangents |-> {},
     constrainAllToSurface |-> FALSE, constrainEndpointsToSurface |-> FALSE,
     surfaceConstrainedVertices |-> {},
     handle |-> FALSE, errors |-> {}, calls |-> <<>>]

\* The network that is not there: curves is the null pointer.
NullCurve == [pos |-> <<>>, edges |-> <<>>]

\* No network has been allocated.
EmptyHeap ==
    [curves |-> 0, solver |-> 0, subdivided |-> 0, shown |-> 0, live |-> {},
     allocs |-> 0, stage |-> 0]

\* A constructor that accepts self-loop edges.
InvalidTopologyButSelfLoops(positions, edges) ==
    \/ Len(positions) = 0
    \/ Len(edges) = 0
    \/ \E j \in 1..Len(edges) :
          edges[j][1] \notin 1..Len(positions) \/ edges[j][2] \notin 1..Len(positions)
    \/ \E j, k \in 1..Len(edges) :
          j # k /\ {edges[j][1], edges[j][2]} = {edges[k][1], edges[k][2]}

\* InvalidTopology: an empty curve, an index out of range, a self-loop edge,
\* or a duplicate edge.
InvalidTopology(positions, edges) ==
    \/ Len(positions) = 0
    \/ Len(edges) = 0
    \/ \E j \in 1..Len(edges) :
          edges[j][1] \notin 1..Len(positions) \/ edges[j][2] \notin 1..Len(positions)
    \/ \E j \in 1..Len(edges) : edges[j][1] = edges[j][2]
    \/ \E j, k \in 1..Len(edges) :
          j # k /\ {edges[j][1], edges[j][2]} = {edges[k][1], edges[k][2]}

\* createCurveNetwork / new PolyCurveNetwork(positions, edges): the network,
\* or the failure of the construction.
createCurveNetwork(positions, edges) ==
    IF InvalidTopology(positions, edges)
    THEN [ok |-> FALSE, curve |-> NullCurve, errors |-> {"InvalidTopology"}]
    ELSE [ok |-> TRUE, curve |-> [pos |-> positions, edges |-> edges], errors |-> {}]

\* The vertices with exactly one edge (numEdges() == 1).
Endpoints(c) ==
    {v \in 1..NumVertices(c) :
        Cardinality({j \in 1..NumEdges(c) : v \in {c.edges[j][1], c.edges[j][2]}}) = 1}

\* processLoopFile in the state st = [pc, curves, heap, network, load, sceneData]:
\* the old network is deleted, the file is read and the network constructed.
\* A failing construction leaves through processFile and main.
processLoopFile(st) ==
    LET made  == createCurveNetwork(st.load.positions, st.load.edges)
        freed == [st.heap EXCEPT !.live = @ \ {st.heap.curves}]
    IN  IF made.ok
        THEN [st EXCEPT !.curves = made.curve,
                        !.heap = [freed EXCEPT !.allocs = @ + 1,
                                               !.curves = freed.allocs + 1,
                                               !.live = @ \cup {freed.allocs + 1}],
                        !.network = NoNetworkData,
                        !.load = [@ EXCEPT !.handle = TRUE]]
        ELSE [st EXCEPT !.pc = "terminated",
                        !.heap = freed,
                        !.load = [@ EXCEPT !.errors = @ \cup made.errors]]

\* processSceneFile: the pins on the implicit surface.
SurfacePins(l, c) ==
    IF l.constrainAllToSurface THEN 1..NumVertices(c)
    ELSE IF l.constrainEndpointsToSurface THEN Endpoints(c)
    ELSE l.surfaceConstrainedVertices

\* processSceneFile: the curve file of the scene is loaded, then the scene's
\* constraints and pins are put on the network.  (The scenes of the model
\* pin no special vertices.)
processSceneFile(st) ==
    LET loaded == processLoopFile(st)
    IN  IF loaded.pc = "terminated" THEN loaded
        ELSE [loaded EXCEPT
                 !.sceneData = st.load.data,
                 !.network = [appliedConstraints |-> st.load.constraints,
                              pinnedVertices     |-> st.load.pinnedVertices,
                              pinnedTangents     |-> st.load.pinnedTangents,
                              surfacePins        |-> SurfacePins(st.load, loaded.curves),
                              pinnedAllToSurface |-> st.load.constrainAllToSurface]]

\* processFile: the loader is chosen by the extension of the file name.
processFile(st) ==
    IF st.load.ext \in {"obj", "loop"} THEN processLoopFile(st)
    ELSE IF st.load.ext = "txt" THEN processSceneFile(st)
    ELSE [st EXCEPT !.load = [@ EXCEPT !.errors = @ \cup {"Unrecognized file type"}]]

\* main has called f.
Called(l, f) == [l EXCEPT !.calls = Append(@, f)]

\* No block cluster tree.
NoBCT == [built |-> FALSE]

\* The file of the initial curve, loaded and displayed.
LoopLoaded ==
    [CurveFile("loop", LCurve(InitialArm).pos, LCurve(InitialArm).edges, <<>>)
        EXCEPT !.handle = TRUE, !.calls = <<"processFile", "DisplayCurves">>]

(***************************************************************************)
(* The initial state: the application is constructed, the curve and the    *)
(* scene file are read (main, before initSolver).  The defaults of the     *)
(* options, counters and limits are set in headers (lws_app.h),            *)
(* outside the files at hand: the flow is not running, no limit is set.    *)
(***************************************************************************)
\* The weight of a length potential a scene may add, in units of the energy.
LengthWeight == 150

Scenes ==
    [subdivideLimit  : 0..MaxSubdivideLimit,
     iterationLimit  : 0..MaxStepLimit,
     useLengthScale  : {TRUE},
     edgeLengthScale : {1, 2},
     extraPotentials : {<<>>},
     obstacles       : {<<>>},
     planes          : {<<>>}]

NoLog ==
    [stepped |-> FALSE, runAtCheck |-> FALSE, button |-> FALSE, calls |-> <<>>,
     good |-> FALSE, msgs |-> {}, subdivided |-> 0, pre |-> <<>>, post |-> <<>>,
     allFrames |-> TRUE, allOBJs |-> TRUE, manual |-> 0]

Init ==
    /\ pc = "main"
    /\ runTPE = FALSE
    /\ useSobolev = TRUE
    /\ useMultigrid = FALSE
    /\ useBarnesHut = FALSE
    /\ useBackproj = FALSE
    /\ outputFrames = FALSE
    /\ writeOBJs = FALSE
    /\ screenshotNum = 0
    /\ objNum = 0
    /\ currentStep = 0
    /\ numStuckIterations = 0
    /\ subdivideCount = 0
    /\ subdivideLimit = 0
    /\ stepLimit = 0
    /\ initialAverageLength = [total |-> 0, edges |-> 1]
    /\ curves = LCurve(InitialArm)
    /\ sceneData \in Scenes
    /\ tpeSolver = NoSolver
    /\ ls = [dir |-> 0, halvings |-> 0]
    /\ log = NoLog
    /\ network = NoNetworkData
    /\ heap = InitialHeap
    /\ load = LoopLoaded
    /\ disk = {}
    /\ bct = NoBCT

(***************************************************************************)
(* initSolver                                                              *)
(***************************************************************************)
initSolver ==
    /\ numStuckIterations' = 0
    /\ subdivideCount' = 0
    /\ useBackproj' = TRUE
    /\ subdivideLimit' = ConfiguredLimit(subdivideLimit, sceneData.subdivideLimit)
    /\ stepLimit' = ConfiguredLimit(stepLimit, sceneData.iterationLimit)
    /\ IF ~tpeSolver.created
       THEN /\ tpeSolver' = [created      |-> TRUE,
                             soboNormZero |-> FALSE,
                             potentials   |-> AddedPotentials(sceneData.extraPotentials),
                             targetLength |-> TargetLengthOf(sceneData, curves),
                             obstacles    |-> AddedObstacles(sceneData)]
            /\ initialAverageLength' = AverageLength(curves)
            /\ network' = [network EXCEPT !.appliedConstraints =
                                             DefaultConstraints(@)]
            /\ heap' = [heap EXCEPT !.solver = heap.curves]
       ELSE UNCHANGED <<tpeSolver, initialAverageLength, network, heap>>
    /\ load' = Called(load, "initSolver")
    /\ UNCHANGED <<runTPE, useSobolev, useMultigrid, useBarnesHut, outputFrames,
                   writeOBJs, screenshotNum, objNum, currentStep, curves, sceneData,
                   ls, log, disk, bct>>

\* main: initSolver is called once, after the curve is displayed.
InitSolver ==
    /\ pc = "main"
    /\ pc' = "idle"
    /\ initSolver

(***************************************************************************)
(* customWindow.  One widget is activated per frame at most.               *)
(***************************************************************************)
Toggle(w, name, value) == IF w = name THEN ~value ELSE value

\* One call of the callback with widget w activated: the widgets, then the step
\* block, in which the solver routine evaluates the direction dir, runs the line
\* search and reports soboNormZero as sobo.
Handler(w, dir, sobo) ==
    LET run1    == Toggle(w, "Run TPE", runTPE)
        frames1 == Toggle(w, "Output frames", outputFrames)
        objs1   == Toggle(w, "Output OBJs", writeOBJs)
        sob1    == Toggle(w, "Use Sobolev", useSobolev)
        bp1     == Toggle(w, "Project constraints", useBackproj)
        bh1     == Toggle(w, "Use Barnes-Hut", useBarnesHut)
        mg1     == Toggle(w, "Use multigrid", useMultigrid)
        button  == w = "Single TPE step"
        shot1   == IF w = "Output frame" THEN AfterFrame(screenshotNum) ELSE screenshotNum
        seen    == [log EXCEPT !.stepped = FALSE, !.runAtCheck = run1,
                               !.button = button, !.calls = <<>>, !.good = FALSE,
                               !.msgs = {}, !.subdivided = 0,
                               !.pre = curves, !.post = curves,
                               !.manual = IF w = "Output frame" THEN @ + 1 ELSE @]
    IN  /\ pc = "idle"
        /\ outputFrames' = frames1
        /\ writeOBJs' = objs1
        /\ useSobolev' = sob1
        /\ useBackproj' = bp1
        /\ useBarnesHut' = bh1
        /\ useMultigrid' = mg1
        /\ IF ShouldStep(run1, button)
           THEN /\ currentStep < MaxSteps
                /\ IsDir(curves, subdivideCount, dir)
                /\ currentStep' = currentStep + 1
                /\ \E search \in {LineSearch(curves, subdivideCount, dir,
                                             tpeSolver.potentials)} :
                   \E near \in {AfterNearMinimum(run1, sobo)},
                      tlr \in {TargetLengthReached(tpeSolver, search.curve)},
                      subdiv \in {ShouldSubdivide(search.curve, initialAverageLength,
                                                 subdivideCount, subdivideLimit)} :
                   \E prog \in {AfterProgressCheck(near.run, numStuckIterations,
                                                   search.good, tlr, stepLimit,
                                                   currentStep + 1)} :
                         /\ ls' = [dir |-> dir, halvings |-> search.halvings]
                         /\ tpeSolver' = [tpeSolver EXCEPT !.soboNormZero = sobo]
                         /\ runTPE' = prog.run
                         /\ numStuckIterations' = prog.stuck
                         /\ subdivideCount' = IF subdiv THEN subdivideCount + 1
                                                        ELSE subdivideCount
                         /\ curves' = IF subdiv THEN Subdivide(search.curve)
                                                ELSE search.curve
                         /\ heap' = IF subdiv THEN SubdivideCurveFrom(heap) ELSE heap
                         /\ network' = IF subdiv THEN SubdividedNetworkData(network)
                                                 ELSE network
                         /\ screenshotNum' =
                                AfterStepFrame(frames1, BeforeStepFrame(frames1, shot1))
                         /\ objNum' = AfterStepFrame(objs1, BeforeStepFrame(objs1, objNum))
                         /\ log' = [seen EXCEPT
                                      !.stepped = TRUE,
                                      !.calls = <<SolverCall(sob1, mg1, bh1, bp1)>>,
                                      !.good = search.good,
                                      !.msgs = near.msgs \cup prog.msgs,
                                      !.subdivided = IF subdiv THEN 1 ELSE 0,
                                      !.post = search.curve,
                                      !.allFrames = @ /\ frames1,
                                      !.allOBJs = @ /\ objs1]
           ELSE /\ dir = 0
                /\ sobo = tpeSolver.soboNormZero
                /\ runTPE' = run1
                /\ screenshotNum' = shot1
                /\ log' = seen
                /\ UNCHANGED <<objNum, currentStep, numStuckIterations, subdivideCount,
                               curves, tpeSolver, ls, heap, network>>
        /\ disk' = AfterOutput(disk, screenshotNum, screenshotNum', objNum, objNum')
        /\ UNCHANGED <<pc, limits, startup>>

\* The widgets that start and stop the flow.
RunWidgets == {"none", "Run TPE", "Single TPE step"}

\* The widgets that select the solver routine.
OptionWidgets == {"Use Sobolev", "Project constraints", "Use Barnes-Hut", "Use multigrid"}

\* Every direction of the model.
AllDirs == (-1)..MaxDir

\* Without potentials the energy falls under every dilation: the direction
\* points outwards, or vanishes.
OutwardDirs == 0..MaxDir

CustomWindow ==
    \E w \in RunWidgets, dir \in OutwardDirs, sobo \in BOOLEAN : Handler(w, dir, sobo)

Next == InitSolver \/ CustomWindow

Spec == Init /\ [][Next]_vars

(***************************************************************************)
(* The callback with the widgets that select the solver routine: the user  *)
(* sets the options and steps with the button.                             *)
(***************************************************************************)
\* The widgets of the option frames.
StepWidgets == OptionWidgets \cup {"Single TPE step"}

\* The directions of the option frames: no move, or one lattice unit outwards.
StepDirs == {0, 1}

CustomWindowUI == \E w \in StepWidgets, dir \in StepDirs : Handler(w, dir, FALSE)

NextUI == InitSolver \/ CustomWindowUI

SpecUI == Init /\ [][NextUI]_vars

(***************************************************************************)
(* The line search of a step, one trial per transition (design document,   *)
(* section 4.5): pc = "ls" while the search of the current step runs,      *)
(* "lsdone" when the step has ended.                                       *)
(***************************************************************************)
ScenesLS ==
    [subdivideLimit  : {0},
     iterationLimit  : {0},
     useLengthScale  : {TRUE},
     edgeLengthScale : {1},
     extraPotentials : {<<>>,
                        <<[type |-> "Length", weight |-> LengthWeight]>>,
                        <<[type |-> "Area", weight |-> LengthWeight]>>},
     obstacles       : {<<>>},
     planes          : {<<>>}]

\* The state when the first step enters its line search: initSolver has run.
InitLS ==
    /\ pc = "ls"
    /\ runTPE = TRUE
    /\ useSobolev = TRUE
    /\ useMultigrid = FALSE
    /\ useBarnesHut = FALSE
    /\ useBackproj = TRUE
    /\ outputFrames = FALSE
    /\ writeOBJs = FALSE
    /\ screenshotNum = 0
    /\ objNum = 0
    /\ currentStep = 1
    /\ numStuckIterations = 0
    /\ subdivideCount = 0
    /\ subdivideLimit = 0
    /\ stepLimit = 0
    /\ curves = LCurve(InitialArm)
    /\ initialAverageLength = AverageLength(curves)
    /\ sceneData \in ScenesLS
    /\ tpeSolver = [created      |-> TRUE,
                    soboNormZero |-> FALSE,
                    potentials   |-> AddedPotentials(sceneData.extraPotentials),
                    targetLength |-> TargetLengthOf(sceneData, curves),
                    obstacles    |-> AddedObstacles(sceneData)]
    /\ \E d \in AllDirs : IsDir(curves, 0, d) /\ ls = [dir |-> d, halvings |-> 0]
    /\ log = NoLog
    /\ network = [NoNetworkData EXCEPT !.appliedConstraints = DefaultConstraints(@)]
    /\ heap = [InitialHeap EXCEPT !.solver = 1]
    /\ load = LoopLoaded
    /\ disk = {}
    /\ bct = NoBCT

\* One trial of the line search: accept, give up, or halve the step.
LineSearchTrial ==
    /\ pc = "ls"
    /\ \E st \in {LineSearchStep(curves, Energy(curves, tpeSolver.potentials),
                                 subdivideCount, ls.dir, tpeSolver.potentials,
                                 ls.halvings)} :
          IF st.done
          THEN /\ pc' = "lsdone"
               /\ curves' = st.curve
               /\ log' = [NoLog EXCEPT !.stepped = TRUE, !.runAtCheck = runTPE,
                                       !.good = st.good, !.pre = curves,
                                       !.post = st.curve]
               /\ UNCHANGED ls
          ELSE /\ ls' = [ls EXCEPT !.halvings = st.halvings]
               /\ UNCHANGED <<pc, curves, log>>
    /\ UNCHANGED <<runTPE, options, frameCounters, currentStep, numStuckIterations,
                   subdivideCount, limits, tpeSolver, network, heap, disk, startup>>

\* The next step enters its line search with the direction dir.
NextLineSearch(dir) ==
    /\ pc = "lsdone"
    /\ currentStep < MaxSteps
    /\ IsDir(curves, subdivideCount, dir)
    /\ pc' = "ls"
    /\ currentStep' = currentStep + 1
    /\ ls' = [dir |-> dir, halvings |-> 0]
    /\ UNCHANGED <<runTPE, options, frameCounters, numStuckIterations, subdivideCount,
                   limits, curves, tpeSolver, log, network, heap, disk, startup>>

StartLineSearch == \E dir \in AllDirs : NextLineSearch(dir)

NextLS == LineSearchTrial \/ StartLineSearch

\* The line search is a loop of the running step: a trial that can run does run.
SpecLS == InitLS /\ [][NextLS]_vars /\ WF_vars(LineSearchTrial)

(***************************************************************************)
(* SubdivideCurve, one statement per transition.  The state at the call    *)
(* (customWindow, after a step): the solver exists, application and solver *)
(* hold the same network, which is the only one in memory, the average     *)
(* edge length has passed twice the initial one, and the subdivision has   *)
(* been counted.                                                           *)
(***************************************************************************)
\* The vertices a scene file may pin.
PinChoices == SUBSET (1..NumVertices(LCurve(InitialArm)))

\* The networks at the first call and, already subdivided once, at the second.
InitSub ==
    /\ pc = "SubdivideCurve"
    /\ runTPE = TRUE
    /\ useSobolev = TRUE
    /\ useMultigrid = FALSE
    /\ useBarnesHut = FALSE
    /\ useBackproj = TRUE
    /\ outputFrames = FALSE
    /\ writeOBJs = FALSE
    /\ screenshotNum = 0
    /\ objNum = 0
    /\ currentStep = 1
    /\ numStuckIterations = 0
    /\ subdivideLimit = MaxSubdivideLimit
    /\ stepLimit = 0
    /\ initialAverageLength = AverageLength(LCurve(InitialArm))
    /\ \E a \in 1..MaxArm, count \in 0..(MaxSubdivideLimit - 1) :
          /\ subdivideCount = count + 1
          /\ ShouldSubdivide(LCurve(a), initialAverageLength, 0, subdivideLimit)
          /\ curves = IF count = 0 THEN LCurve(a) ELSE Subdivide(LCurve(a))
          /\ heap = [InitialHeap EXCEPT !.curves = count + 1, !.solver = count + 1,
                                        !.shown = count + 1, !.live = {count + 1},
                                        !.allocs = count + 1]
    /\ ShouldSubdivide(curves, initialAverageLength, subdivideCount - 1, subdivideLimit)
    /\ sceneData \in ScenesLS
    /\ tpeSolver = [created      |-> TRUE,
                    soboNormZero |-> FALSE,
                    potentials   |-> AddedPotentials(sceneData.extraPotentials),
                    targetLength |-> 0,
                    obstacles    |-> AddedObstacles(sceneData)]
    /\ ls = [dir |-> 1, halvings |-> 0]
    /\ log = [NoLog EXCEPT !.stepped = TRUE, !.runAtCheck = TRUE, !.good = TRUE,
                           !.pre = curves, !.post = curves]
    /\ \E pinned \in PinChoices, tangents \in PinChoices :
          network = [NoNetworkData EXCEPT
                        !.appliedConstraints = DefaultConstraints(@),
                        !.pinnedVertices = pinned, !.pinnedTangents = tangents]
    /\ load = LoopLoaded
    /\ disk = {}
    /\ bct = NoBCT

\* The next statement of SubdivideCurve.  The application's curve and its
\* pins are those of the network heap.curves points to, so they change with
\* the assignment to curves.
SubdivideCurveStatementStep ==
    /\ pc = "SubdivideCurve"
    /\ heap.stage < Len(SubdivideCurveBody)
    /\ heap' = SubdivideCurveStep(heap)
    /\ IF SubdivideCurveStatement(heap.stage + 1) = "assign"
       THEN /\ curves' = Subdivide(curves)
            /\ network' = SubdividedNetworkData(network)
       ELSE UNCHANGED <<curves, network>>
    /\ UNCHANGED <<pc, runTPE, options, frameCounters, currentStep, numStuckIterations,
                   subdivideCount, limits, tpeSolver, ls, log, disk, startup>>

\* SubdivideCurve returns to customWindow.
SubdivideCurveReturn ==
    /\ pc = "SubdivideCurve"
    /\ heap.stage >= Len(SubdivideCurveBody)
    /\ pc' = "idle"
    /\ heap' = SubdivideCurveFrom(heap)
    /\ log' = [log EXCEPT !.subdivided = 1]
    /\ UNCHANGED <<runTPE, options, frameCounters, currentStep, numStuckIterations,
                   subdivideCount, limits, curves, tpeSolver, ls, network, disk, startup>>

NextSub == SubdivideCurveStatementStep \/ SubdivideCurveReturn

SpecSub == InitSub /\ [][NextSub]_vars

(***************************************************************************)
(* main from the construction of the application to the end of initSolver. *)
(* The file named on the command line is any of the files below.           *)
(***************************************************************************)
\* The edge lists of the curve files: an open curve, a closed curve, and one
\* file for each kind of invalid topology (no edge, an index out of range, a
\* self-loop, a duplicate edge).
EdgeLists ==
    { << <<1, 2>>, <<2, 3>> >>,
      << <<1, 2>>, <<2, 3>>, <<3, 1>> >>,
      << >>,
      << <<1, 2>>, <<2, 4>> >>,
      << <<1, 2>>, <<2, 2>> >>,
      << <<1, 2>>, <<2, 3>>, <<2, 1>> >> }

\* What the application holds before a scene is read, and what a scene file
\* may hold.
ScenesMain ==
    [subdivideLimit  : {0},
     iterationLimit  : {0},
     useLengthScale  : {TRUE},
     edgeLengthScale : {1},
     extraPotentials : {<<>>, <<[type |-> "Length", weight |-> LengthWeight]>>},
     obstacles       : {<<>>, <<"mesh">>},
     planes          : {<<>>}]

\* The constraint lists of the scene files.
ConstraintLists == {<<>>, <<"EdgeLengths">>, <<"TotalLength", "Barycenter">>}

\* The files: curve files, scene files, and a file of another type.
Files ==
    { CurveFile(ext, LCurve(InitialArm).pos, edges, <<>>) :
        ext \in {"obj", "loop", "png"}, edges \in EdgeLists }
    \cup
    { [CurveFile("txt", LCurve(InitialArm).pos, edges, data) EXCEPT
          !.constraints = applied,
          !.constrainAllToSurface = all,
          !.constrainEndpointsToSurface = ends,
          !.surfaceConstrainedVertices = listed] :
        edges \in EdgeLists, data \in ScenesMain, applied \in ConstraintLists,
        all \in BOOLEAN, ends \in BOOLEAN, listed \in PinChoices }

\* The application is constructed; nothing is loaded.
InitMain ==
    /\ pc = "start"
    /\ runTPE = FALSE
    /\ useSobolev = TRUE
    /\ useMultigrid = FALSE
    /\ useBarnesHut = FALSE
    /\ useBackproj = FALSE
    /\ outputFrames = FALSE
    /\ writeOBJs = FALSE
    /\ screenshotNum = 0
    /\ objNum = 0
    /\ currentStep = 0
    /\ numStuckIterations = 0
    /\ subdivideCount = 0
    /\ subdivideLimit = 0
    /\ stepLimit = 0
    /\ initialAverageLength = [total |-> 0, edges |-> 1]
    /\ curves = NullCurve
    /\ sceneData \in ScenesMain
    /\ tpeSolver = NoSolver
    /\ ls = [dir |-> 0, halvings |-> 0]
    /\ log = NoLog
    /\ network = NoNetworkData
    /\ heap = EmptyHeap
    /\ load \in Files
    /\ disk = {}
    /\ bct = NoBCT

\* main: processFile(instance, file).  The message about an unrecognised
\* file type does not stop main.
ProcessFile ==
    /\ pc = "start"
    /\ \E st \in {processFile([pc |-> "display", curves |-> curves, heap |-> heap,
                               network |-> network, sceneData |-> sceneData,
                               load |-> Called(load, "processFile")])} :
          /\ pc' = st.pc
          /\ curves' = st.curves
          /\ heap' = st.heap
          /\ network' = st.network
          /\ sceneData' = st.sceneData
          /\ load' = st.load
    /\ UNCHANGED <<runTPE, options, frameCounters, currentStep, numStuckIterations,
                   subdivideCount, subdivideLimit, stepLimit, initialAverageLength,
                   tpeSolver, ls, log, disk, bct>>

\* main: app->DisplayCurves(app->curves, app->curveName).  DisplayCurves
\* reads the network through the pointer; through the null pointer the
\* behaviour is undefined: the program stops, or goes on.
DisplayCurves ==
    /\ pc = "display"
    /\ load' = Called(load, "DisplayCurves")
    /\ heap' = [heap EXCEPT !.shown = heap.curves]
    /\ IF load.handle THEN pc' = "main" ELSE pc' \in {"main", "crashed"}
    /\ UNCHANGED <<runTPE, options, frameCounters, currentStep, numStuckIterations,
                   subdivideCount, limits, curves, tpeSolver, ls, log, network,
                   disk, bct>>

\* initSolver reads curves->appliedConstraints; through the null pointer the
\* program may stop here.
InitSolverWithoutCurve ==
    /\ pc = "main"
    /\ ~load.handle
    /\ pc' = "crashed"
    /\ load' = Called(load, "initSolver")
    /\ UNCHANGED <<runTPE, options, frameCounters, currentStep, numStuckIterations,
                   subdivideCount, limits, curves, tpeSolver, ls, log, network,
                   heap, disk, bct>>

\* initSolver called with the solver present (main calls it once; the member
\* function is public).
InitSolverAgain ==
    /\ pc = "idle"
    /\ tpeSolver.created
    /\ Len(load.calls) < MaxCalls
    /\ initSolver
    /\ UNCHANGED pc

NextMain ==
    ProcessFile \/ DisplayCurves \/ InitSolver \/ InitSolverWithoutCurve \/ InitSolverAgain

SpecMain == InitMain /\ [][NextMain]_vars

(***************************************************************************)
(* The callback with the widgets of the frame output: the user presses     *)
(* "Output frame", switches the output of frames and OBJs, and steps with  *)
(* the button.                                                             *)
(***************************************************************************)
\* The widgets of the frame output, and the step button.
FrameWidgets == {"Output frame", "Output frames", "Output OBJs", "Single TPE step"}

CustomWindowFrames ==
    \E w \in FrameWidgets :
        /\ (w = "Output frame") => log.manual < MaxManualFrames
        /\ Handler(w, IF w = "Single TPE step" THEN 1 ELSE 0, FALSE)

NextFrames == InitSolver \/ CustomWindowFrames

SpecFrames == Init /\ [][NextFrames]_vars

(***************************************************************************)
(* The same callback late in a session: "Output frame" has been pressed    *)
(* FramesBefore times, no step has been taken, and the files of these      *)
(* frames are on the disk.  (log.manual counts the presses from here on.)  *)
(***************************************************************************)
InitNames ==
    /\ pc = "idle"
    /\ runTPE = FALSE
    /\ useSobolev = TRUE
    /\ useMultigrid = FALSE
    /\ useBarnesHut = FALSE
    /\ useBackproj = TRUE
    /\ outputFrames = FALSE
    /\ writeOBJs = FALSE
    /\ screenshotNum = FramesBefore
    /\ objNum = 0
    /\ currentStep = 0
    /\ numStuckIterations = 0
    /\ subdivideCount = 0
    /\ subdivideLimit = 0
    /\ stepLimit = 0
    /\ curves = LCurve(InitialArm)
    /\ initialAverageLength = AverageLength(curves)
    /\ sceneData \in {scene \in ScenesLS : Len(scene.extraPotentials) = 0}
    /\ tpeSolver = [created      |-> TRUE,
                    soboNormZero |-> FALSE,
                    potentials   |-> AddedPotentials(sceneData.extraPotentials),
                    targetLength |-> TargetLengthOf(sceneData, curves),
                    obstacles    |-> AddedObstacles(sceneData)]
    /\ ls = [dir |-> 0, halvings |-> 0]
    /\ log = NoLog
    /\ network = [NoNetworkData EXCEPT !.appliedConstraints = DefaultConstraints(@)]
    /\ heap = [InitialHeap EXCEPT !.solver = 1]
    /\ load = Called(LoopLoaded, "initSolver")
    /\ disk = {[dir |-> "frames", name |-> FrameName(n), num |-> n] :
                  n \in 0..(FramesBefore - 1)}
    /\ bct = NoBCT

\* The widgets that write screenshots.
NameWidgets == {"Output frame", "Output frames", "Single TPE step"}

CustomWindowNames ==
    \E w \in NameWidgets :
        /\ (w = "Output frame") => log.manual < MaxManualFrames
        /\ Handler(w, IF w = "Single TPE step" THEN 1 ELSE 0, FALSE)

SpecNames == InitNames /\ [][CustomWindowNames]_vars

(***************************************************************************)
(* createBlockClusterTree: the edge BVH of a curve and the dual traversal  *)
(* that builds the block cluster tree (design document, sections 3 and     *)
(* 4.2).  The curves are straight polylines along the x axis, so a cluster *)
(* of the BVH is a run lo..hi of consecutive edges, its mass is its        *)
(* length, its diameter the extent of its bounding box, and the distance   *)
(* of two clusters the gap between their boxes.                            *)
(***************************************************************************)
\* The polyline along the x axis whose edges have the given lengths.
StraightCurve(lengths) ==
    [pos   |-> [i \in 1..(Len(lengths) + 1) |-> <<SumSeq(SubSeq(lengths, 1, i - 1)), 0>>],
     edges |-> [j \in 1..Len(lengths) |-> <<j, j + 1>>]]

\* The total mass of the edges lo..hi.
Mass(lengths, lo, hi) == IF lo > hi THEN 0 ELSE SumSeq(SubSeq(lengths, lo, hi))

\* The binary split at the mass median: the first edge at which the mass of
\* the left part reaches half of the total (both parts keep an edge).
SplitAt(lengths, lo, hi) ==
    LET reached == {k \in lo..(hi - 1) :
                       2 * Mass(lengths, lo, k) >= Mass(lengths, lo, hi)}
    IN  IF reached = {} THEN hi - 1
        ELSE CHOOSE k \in reached : \A j \in reached : k <= j

IsLeaf(node) == node.lo = node.hi

\* The children of a node: none for a leaf, which holds a single edge.
Children(lengths, node) ==
    IF IsLeaf(node) THEN <<>>
    ELSE LET s == SplitAt(lengths, node.lo, node.hi)
         IN  <<[lo |-> node.lo, hi |-> s], [lo |-> s + 1, hi |-> node.hi]>>

Diam(lengths, node) == Mass(lengths, node.lo, node.hi)

Dist(lengths, a, b) ==
    IF a.hi < b.lo THEN Mass(lengths, a.hi + 1, b.lo - 1)
    ELSE IF b.hi < a.lo THEN Mass(lengths, b.hi + 1, a.lo - 1)
    ELSE 0

\* Admissible iff max(diam(A), diam(B)) < sep * dist(A, B).
Admissible(lengths, a, b, sep) ==
    LET da == Diam(lengths, a)
        db == Diam(lengths, b)
    IN  (IF da >= db THEN da ELSE db) < sep * Dist(lengths, a, b)

\* A traversal that descends into the first child only.
ChildPairsFirstOnly(lengths, a, b) ==
    IF Diam(lengths, a) >= Diam(lengths, b)
    THEN [k \in 1..(IF IsLeaf(a) THEN 0 ELSE 1) |-> <<Children(lengths, a)[k], b>>]
    ELSE [k \in 1..(IF IsLeaf(b) THEN 0 ELSE 1) |-> <<a, Children(lengths, b)[k]>>]

\* "Descend into the larger-diameter side's children": the pairs visited
\* next (of equal diameters the first side is taken).
ChildPairs(lengths, a, b) ==
    IF Diam(lengths, a) >= Diam(lengths, b)
    THEN [k \in 1..Len(Children(lengths, a)) |-> <<Children(lengths, a)[k], b>>]
    ELSE [k \in 1..Len(Children(lengths, b)) |-> <<a, Children(lengths, b)[k]>>]

\* The pair (a, b) is classified in the tree t.  A pair whose larger side
\* has no children cannot be descended into: it is recorded in t.stuck.
Visit(t, a, b) ==
    IF Admissible(t.lengths, a, b, SeparationRatio)
    THEN [t EXCEPT !.adm_blocks = @ \cup {<<a, b>>}]
    ELSE IF IsLeaf(a) /\ IsLeaf(b)
    THEN [t EXCEPT !.inadm_blocks = @ \cup {<<a.lo, b.lo>>}]
    ELSE LET pairs == ChildPairs(t.lengths, a, b)
         IN  IF Len(pairs) = 0
             THEN [t EXCEPT !.stuck = @ \cup {<<a, b>>}]
             ELSE [t EXCEPT !.work = @ \o pairs]

\* The traversal is about to begin at (root, root).
NewBCT(lengths) ==
    LET root == [lo |-> 1, hi |-> Len(lengths)]
    IN  [built |-> FALSE, lengths |-> lengths, work |-> << <<root, root>> >>,
         adm_blocks |-> {}, inadm_blocks |-> {}, stuck |-> {}]

\* The edge lengths of the curves.
LengthChoices == {1, 2, 8}

InitBCT ==
    /\ pc = "bct"
    /\ runTPE = FALSE
    /\ useSobolev = TRUE
    /\ useMultigrid = FALSE
    /\ useBarnesHut = FALSE
    /\ useBackproj = TRUE
    /\ outputFrames = FALSE
    /\ writeOBJs = FALSE
    /\ screenshotNum = 0
    /\ objNum = 0
    /\ currentStep = 0
    /\ numStuckIterations = 0
    /\ subdivideCount = 0
    /\ subdivideLimit = 0
    /\ stepLimit = 0
    /\ \E m \in 1..MaxBCTEdges : \E lengths \in [1..m -> LengthChoices] :
          /\ curves = StraightCurve(lengths)
          /\ bct = NewBCT(lengths)
    /\ initialAverageLength = AverageLength(curves)
    /\ sceneData \in {scene \in ScenesLS : Len(scene.extraPotentials) = 0}
    /\ tpeSolver = NoSolver
    /\ ls = [dir |-> 0, halvings |-> 0]
    /\ log = NoLog
    /\ network = NoNetworkData
    /\ heap = InitialHeap
    /\ load = LoopLoaded
    /\ disk = {}

\* The next pair of the traversal is classified.
BCTVisit ==
    /\ pc = "bct"
    /\ Len(bct.work) > 0
    /\ bct' = Visit([bct EXCEPT !.work = Tail(@)], Head(bct.work)[1], Head(bct.work)[2])
    /\ UNCHANGED <<pc, runTPE, options, frameCounters, currentStep, numStuckIterations,
                   subdivideCount, limits, curves, tpeSolver, ls, log, network, heap,
                   load, disk>>

\* No pair is left: the tree is returned.
BCTReturn ==
    /\ pc = "bct"
    /\ Len(bct.work) = 0
    /\ pc' = "bctdone"
    /\ bct' = [bct EXCEPT !.built = TRUE]
    /\ UNCHANGED <<runTPE, options, frameCounters, currentStep, numStuckIterations,
                   subdivideCount, limits, curves, tpeSolver, ls, log, network, heap,
                   load, disk>>

NextBCT == BCTVisit \/ BCTReturn

\* The traversal is a loop of createBlockClusterTree: it goes on while it can.
SpecBCT == InitBCT /\ [][NextBCT]_vars /\ WF_vars(NextBCT)

(***************************************************************************)
(* Properties.                                                             *)
(***************************************************************************)
\* subdivideCount when the last callback tested it (before its increment).
CountAtCheck == subdivideCount - log.subdivided

\* averageLength > 2 * initialAverageLength for the curve c, written out.
Doubled(c) ==
    TotalLength(c) * initialAverageLength.edges
        > 2 * initialAverageLength.total * NumEdges(c)

\* C1 as stated: at the end of every step, a curve whose average edge length
\* is greater than twice the initial average edge length is subdivided in
\* that step.
C1_SubdividedWheneverDoubled ==
    (log.stepped /\ Doubled(log.post)) => log.subdivided = 1

\* C1, amended: at the end of every step the curve is subdivided exactly when
\* its average edge length is greater than twice the initial one and fewer
\* than subdivideLimit subdivisions have been made.
C1_SubdividedIffDoubledBelowLimit ==
    log.stepped =>
        (log.subdivided = 1 <=> (Doubled(log.post) /\ CountAtCheck < subdivideLimit))

\* A step after which the average edge length was more than doubled and the
\* curve was subdivided.
C1_Witness ==
    /\ log.stepped
    /\ Doubled(log.post)
    /\ log.subdivided = 1
    /\ NumEdges(curves) = 2 * NumEdges(log.post)

\* C2 as stated: with a positive step limit, after any step at whose end
\* currentStep >= stepLimit the run flag is false, whatever the outcome of
\* the step.
C2_StoppedAtStepLimit ==
    (log.stepped /\ stepLimit > 0 /\ currentStep >= stepLimit) => ~runTPE

\* C3: subdivideCount never exceeds subdivideLimit; it counts the calls of
\* SubdivideCurve (each doubles the number of edges); one callback makes one
\* subdivision at most.
C3_SubdivisionsWithinLimit ==
    /\ subdivideCount <= subdivideLimit
    /\ NumEdges(curves) = NumEdges(LCurve(InitialArm)) * Pow2(subdivideCount)
    /\ log.stepped => /\ NumEdges(log.post) = NumEdges(log.pre)
                      /\ NumEdges(curves) \in {NumEdges(log.pre), 2 * NumEdges(log.pre)}
                      /\ NumEdges(curves) = NumEdges(log.pre) * Pow2(log.subdivided)

\* The limit is reached and a step ends with the average edge length more
\* than doubled: no further subdivision.
C3_Witness ==
    /\ log.stepped
    /\ subdivideCount >= 1
    /\ subdivideCount = subdivideLimit
    /\ Doubled(log.post)
    /\ log.subdivided = 0

\* C4: a step at whose end the solver reports soboNormZero leaves runTPE
\* false, whatever the step's outcome, the step limit and the stuck counter.
C4_NearMinimumStops ==
    (log.stepped /\ tpeSolver.soboNormZero) => (~runTPE /\ "near minimum" \in log.msgs)

\* A good step of a running flow without step limit that reports soboNormZero.
C4_Witness ==
    /\ log.stepped
    /\ log.runAtCheck
    /\ log.good
    /\ stepLimit = 0
    /\ tpeSolver.soboNormZero
    /\ ~runTPE

\* C5: the run is stopped for lack of progress exactly when the step failed,
\* the stuck counter after it is at least 5 and the target length is reached;
\* no other failed step clears runTPE unless the solver reported soboNormZero.
C5_StuckStop ==
    log.stepped =>
        /\ "no progress" \in log.msgs <=>
              (/\ ~log.good
               /\ numStuckIterations >= 5
               /\ TargetLengthReached(tpeSolver, log.post))
        /\ "no progress" \in log.msgs => ~runTPE
        /\ (~log.good /\ "no progress" \notin log.msgs /\ ~tpeSolver.soboNormZero)
              => runTPE = log.runAtCheck

\* A running flow is stopped for lack of progress.
C5_Witness ==
    /\ log.stepped
    /\ log.runAtCheck
    /\ "no progress" \in log.msgs
    /\ ~tpeSolver.soboNormZero
    /\ numStuckIterations = 5
    /\ ~runTPE

\* C6 as stated: after a step whose line search is exhausted (good_step =
\* false) every vertex position and the edge count are what they were before
\* the step, the post-step subdivision check included.
C6_FailedStepLeavesCurve ==
    (log.stepped /\ ~log.good) => curves = log.pre

\* C6, amended: the solver leaves the curve of a failed step unchanged; the
\* callback then subdivides it exactly when its average edge length is more
\* than twice the initial one and the limit is not reached: the edge count
\* doubles and the old vertices keep their positions.
C6_FailedStepLeavesCurveToSubdivision ==
    (log.stepped /\ ~log.good) =>
        /\ ls.halvings = MaxHalvings
        /\ log.post = log.pre
        /\ IF Doubled(log.pre) /\ CountAtCheck < subdivideLimit
           THEN /\ NumEdges(curves) = 2 * NumEdges(log.pre)
                /\ \A i \in 1..NumVertices(log.pre) : curves.pos[i] = log.pre.pos[i]
           ELSE curves = log.pre

\* A failed step after which the curve was subdivided.
C6_Witness ==
    /\ log.stepped
    /\ ~log.good
    /\ log.post = log.pre
    /\ log.subdivided = 1
    /\ curves # log.pre

\* The energy of the curve c in the current solver.
EnergyOf(c) == Energy(c, tpeSolver.potentials)

\* C7 as stated: every accepted step ends with an energy strictly lower than
\* before it, and no step, one that subdivides included, ends with a higher
\* energy than it started with.
C7_EnergyNeverRises ==
    log.stepped =>
        /\ log.good => EnergyOf(curves) < EnergyOf(log.pre)
        /\ EnergyOf(curves) <= EnergyOf(log.pre)

\* C7, amended: the solver's part of a step never raises the energy, and an
\* accepted step lowers it strictly; a step ends with a higher energy than it
\* started with only when the callback subdivided the curve.
C7_EnergyRisesOnlyBySubdivision ==
    log.stepped =>
        /\ log.good => EnergyOf(log.post) < EnergyOf(log.pre)
        /\ ~log.good => EnergyOf(log.post) = EnergyOf(log.pre)
        /\ log.subdivided = 0 => EnergyOf(curves) = EnergyOf(log.post)
        /\ EnergyOf(curves) > EnergyOf(log.pre) => log.subdivided = 1

\* An accepted step that ends, after its subdivision, with a higher energy
\* than it started with.
C7_Witness ==
    /\ log.stepped
    /\ log.good
    /\ log.subdivided = 1
    /\ EnergyOf(log.post) < EnergyOf(log.pre)
    /\ EnergyOf(curves) > EnergyOf(log.pre)

\* C8: the line search of a step halves t 16 times at most and then ends,
\* accepted or failed: every line search that runs comes to its end.
C8_LineSearchTerminates ==
    /\ [](ls.halvings <= MaxHalvings)
    /\ [](pc = "lsdone" => (log.good \/ ls.halvings = MaxHalvings))
    /\ (pc = "ls") ~> (pc = "lsdone")

\* A line search that failed after 16 halvings, and left the curve alone.
C8_Witness ==
    /\ pc = "lsdone"
    /\ ~log.good
    /\ ls.halvings = MaxHalvings
    /\ curves = log.pre

\* C9: a callback with runTPE false and the button not pressed calls no solver
\* routine and leaves currentStep, numStuckIterations, subdivideCount and the
\* curve unchanged; the callback never sets runTPE; a button press with runTPE
\* false makes exactly one step.
C9_StoppedRunSkipsSteps ==
    [][pc = "idle" =>
         /\ (~log'.runAtCheck /\ ~log'.button) =>
               /\ log'.calls = <<>>
               /\ ~log'.stepped
               /\ UNCHANGED <<currentStep, numStuckIterations, subdivideCount, curves>>
         /\ runTPE' => log'.runAtCheck
         /\ (log'.button /\ ~log'.runAtCheck) =>
               /\ Len(log'.calls) = 1
               /\ currentStep' = currentStep + 1
               /\ ~runTPE']_vars

\* A stopped run: steps were made, the flag is off, the last callback made none.
C9_Witness ==
    /\ pc = "idle"
    /\ currentStep >= 2
    /\ ~runTPE
    /\ ~log.runAtCheck
    /\ ~log.button
    /\ ~log.stepped

\* The routine the options select.
RoutineOf(sobolev, multigrid) ==
    IF sobolev THEN IF multigrid THEN "StepSobolevLSIterative" ELSE "StepSobolevLS"
    ELSE "StepLS"

\* C10 as stated: each step calls exactly one routine, the one the options
\* select, and the routine receives the current useBarnesHut in every mode.
C10_BarnesHutHonoured ==
    log.stepped =>
        /\ Len(log.calls) = 1
        /\ log.calls[1].routine = RoutineOf(useSobolev, useMultigrid)
        /\ log.calls[1].args[1] = B2I(useBarnesHut)

\* C10, amended: each step calls exactly one routine, the one the options
\* select; StepSobolevLS and StepLS receive the current useBarnesHut, while
\* StepSobolevLSIterative receives the constant 0 in its place.
C10_OneRoutinePerStep ==
    log.stepped =>
        /\ Len(log.calls) = 1
        /\ log.calls[1].routine = RoutineOf(useSobolev, useMultigrid)
        /\ log.calls[1].args =
              IF useSobolev
              THEN IF useMultigrid THEN <<0, B2I(useBackproj)>>
                                   ELSE <<B2I(useBarnesHut), B2I(useBackproj)>>
              ELSE <<B2I(useBarnesHut)>>

\* A multigrid step with Barnes-Hut switched on.
C10_Witness ==
    /\ log.stepped
    /\ useSobolev
    /\ useMultigrid
    /\ useBarnesHut
    /\ log.calls[1].routine = "StepSobolevLSIterative"
    /\ log.calls[1].args[1] = 0

(***************************************************************************)
(* C15: numStuckIterations is the number of consecutive failed steps that  *)
(* end at the most recent step; in particular it is 0 immediately after    *)
(* every successful step.                                                  *)
(***************************************************************************)
C15_ZeroAfterSuccessfulStep ==
    (log.stepped /\ log.good) => numStuckIterations = 0

(***************************************************************************)
(* C11: after a subdivision no stale structure is used.  The solver never  *)
(* holds a freed network (the previous network is freed only after the     *)
(* solver was switched); when SubdivideCurve has returned, application,    *)
(* solver and display hold the same network, the one allocated last, and   *)
(* it is the only one in memory; the pinned vertices and tangents are      *)
(* indices of the new network and denote the points they denoted before;   *)
(* the reference length is still the average edge length of the initial    *)
(* network.                                                                *)
(***************************************************************************)
Returned == pc = "idle" /\ log.subdivided = 1

FileRead == Len(load.calls) >= 1 /\ load.ext \in {"obj", "loop", "txt"}

C13_NoCurveNoDisplayNoSolver ==
    (Len(load.calls) >= 1 /\ load.ext \notin {"obj", "loop", "txt"}) =>
        /\ ~load.handle
        /\ \A k \in 1..Len(load.calls) :
              load.calls[k] \notin {"DisplayCurves", "initSolver"}

(***************************************************************************)
(* C14: once initSolver has created the solver the list of applied         *)
(* constraints is not empty: it is <<Barycenter, EdgeLengths>> when the    *)
(* input specified none, and the specified list otherwise.  A call of      *)
(* initSolver with the solver present leaves the constraints, the solver   *)
(* with its potentials and obstacles, and initialAverageLength unchanged.  *)
(***************************************************************************)
InitSolverCalled ==
    /\ Len(load'.calls) = Len(load.calls) + 1
    /\ load'.calls[Len(load'.calls)] = "initSolver"

C14_ConstraintsAfterInitSolver ==
    /\ []((tpeSolver.created /\ load.handle) =>
            /\ Len(network.appliedConstraints) > 0
            /\ (Len(load.constraints) = 0) =>
                  network.appliedConstraints = <<"Barycenter", "EdgeLengths">>
            /\ (Len(load.constraints) > 0) =>
                  network.appliedConstraints = load.constraints)
    /\ [][(tpeSolver.created /\ InitSolverCalled) =>
            /\ network' = network
            /\ tpeSolver' = tpeSolver
            /\ initialAverageLength' = initialAverageLength]_vars

\* initSolver has been called twice on a scene with a potential and an
\* obstacle and without constraints.
C14_Witness ==
    /\ pc = "idle"
    /\ load.handle
    /\ Cardinality({k \in 1..Len(load.calls) : load.calls[k] = "initSolver"}) = 2
    /\ Len(load.constraints) = 0
    /\ network.appliedConstraints = <<"Barycenter", "EdgeLengths">>
    /\ Len(tpeSolver.potentials) > 0
    /\ Len(tpeSolver.obstacles) > 0

(***************************************************************************)
(* C18: after processSceneFile every surface-pin setting of the scene is   *)
(* applied: every vertex of surfaceConstrainedVertices is pinned to the    *)
(* surface, every vertex of valence 1 when constrainEndpointsToSurface is  *)
(* set, every vertex when constrainAllToSurface is set, and                *)
(* pinnedAllToSurface is true exactly when constrainAllToSurface is set.   *)
(***************************************************************************)
C18_SurfacePinsApplied ==
    (Len(load.calls) >= 1 /\ load.ext = "txt" /\ load.handle) =>
        /\ load.surfaceConstrainedVertices \subseteq network.surfacePins
        /\ load.constrainEndpointsToSurface =>
              \A v \in 1..NumVertices(curves) :
                 (Cardinality({j \in 1..NumEdges(curves) :
                                  v \in {curves.edges[j][1], curves.edges[j][2]}}) = 1)
                    => v \in network.surfacePins
        /\ load.constrainAllToSurface => (1..NumVertices(curves)) \subseteq network.surfacePins
        /\ network.pinnedAllToSurface <=> load.constrainAllToSurface

(***************************************************************************)
(* C16: frame numbers are consecutive, without gaps or repeats: the        *)
(* counter rises by 1 with every frame written, a step with frame output   *)
(* on writes exactly one frame after the step and one more before it only  *)
(* when no frame was ever written; so with frame output on during all of   *)
(* the first k steps exactly k+1 frames, numbered 0..k, exist (the same    *)
(* for OBJ frames and objNum).                                             *)
(***************************************************************************)
C16_FramesOfFirstSteps ==
    /\ (log.allFrames /\ currentStep >= 1) => screenshotNum = currentStep + 1
    /\ (log.allOBJs /\ currentStep >= 1) => objNum = currentStep + 1

\* C16, with the frames of the "Output frame" button counted: they take
\* numbers of the same counter, so the screenshots of k steps number k+1
\* only while the button was never pressed; with m presses there are k+m or
\* k+m+1 of them.
FramesOfCallback(num, stepped, enabled) ==
    IF stepped /\ enabled THEN (IF num = 0 THEN 2 ELSE 1) ELSE 0

C16_FramesConsecutive ==
    /\ []( /\ (log.allFrames /\ currentStep >= 1 /\ log.manual = 0) =>
                 screenshotNum = currentStep + 1
           /\ (log.allFrames /\ currentStep >= 1) =>
                 screenshotNum \in {currentStep + log.manual,
                                    currentStep + log.manual + 1}
           /\ (log.allOBJs /\ currentStep >= 1) => objNum = currentStep + 1 )
    /\ [][LET pressed == log'.manual - log.manual
              stepped == currentStep' = currentStep + 1
          IN  /\ pressed \in {0, 1}
              /\ screenshotNum' = screenshotNum + pressed
                     + FramesOfCallback(screenshotNum + pressed, stepped, outputFrames')
              /\ objNum' = objNum + FramesOfCallback(objNum, stepped, writeOBJs')]_vars

\* Two steps with frame and OBJ output on, after two presses of the button.
C16_Witness ==
    /\ currentStep = 2
    /\ log.allFrames
    /\ log.allOBJs
    /\ log.manual = 2
    /\ screenshotNum = 4
    /\ objNum = 3

(***************************************************************************)
(* C17: distinct frame numbers give distinct file names: the names built   *)
(* from the 5-byte "%04d" buffer for two different numbers differ, so a    *)
(* later frame never overwrites an earlier one.                            *)
(***************************************************************************)
C17_DistinctFrameNames ==
    /\ \A later \in FramesBefore..(screenshotNum - 1) :
          \A earlier \in 0..(later - 1) : FrameName(earlier) # FrameName(later)
    /\ Cardinality({f \in disk : f.dir = "frames"}) = screenshotNum

(***************************************************************************)
(* C19: the construction of the block cluster tree terminates for every    *)
(* finite BVH and partitions the interaction matrix: every ordered pair of *)
(* edges (i, j) is covered by exactly one recorded block (an admissible    *)
(* cluster pair or an inadmissible leaf pair), and the traversal never has *)
(* to descend into a node that has no children.                            *)
(***************************************************************************)
\* The recorded blocks that cover the ordered pair (i, j).
Covering(i, j) ==
    {blk \in bct.adm_blocks : /\ i \in blk[1].lo..blk[1].hi
                              /\ j \in blk[2].lo..blk[2].hi}
        \cup {blk \in bct.inadm_blocks : blk = <<i, j>>}

\* The pairs below the cluster pairs that could not be descended into.
BelowStuck(i, j) ==
    \E blk \in bct.stuck : i \in blk[1].lo..blk[1].hi /\ j \in blk[2].lo..blk[2].hi

BCTEdges == 1..NumEdges(curves)

==============================================================================
